---------------------------- MODULE Spec2Model ----------------------------
(***************************************************************************)
(* A model of SetTracker (src/Python/improved_set_tracker.py): the         *)
(* retrying fetcher safe_api_call, the two paginators get_all_set_names    *)
(* and search_cards, the set name resolver find_closest_set_name, and the  *)
(* batch run track_multiple_sets_to_csv with its final sort.               *)
(*                                                                         *)
(* A Python str is a sequence of one-character strings; the em-dash, which *)
(* is no ASCII character, is the one-element token EmDash.  Time is        *)
(* counted in tenths of a second, so rate_limit_delay = 1.0 is 10.         *)
(*                                                                         *)
(* The program is sequential.  A step of the model runs the code from one  *)
(* HTTP request, or one return to a caller, to the next; the answer of the *)
(* HTTP adapter is the only choice.                                        *)
(***************************************************************************)
EXTENDS Integers, Sequences, FiniteSets, TLC

VARIABLES
    \* find_closest_set_name, applied to drawn inputs
    target_name,      \* its first argument
    available_sets,   \* its second argument
    matched_set,      \* the value returned
    rpc,              \* "call" before it ran, "done" after
    \* the sort of the price rows, applied to drawn inputs
    df,               \* the rows in the order collected
    sorted_df,        \* the rows as sort_values leaves them
    spc,              \* "call" before the sort ran, "done" after
    \* SetTracker and the operation in progress
    rate_limit_delay, \* self.rate_limit_delay
    op,               \* the method the client called
    \* safe_api_call's frame
    fpc,              \* "idle", "loop" (at the while test) or "returned"
    endpoint,         \* the url: "sets", "cards" or "card"
    params_page,      \* params["page"], 0 for a call without params
    max_retries,
    backoff_factor,
    retries,
    response_data,    \* the value returned to the caller
    \* what safe_api_call did, for the properties
    attempts,         \* one entry per HTTP request of the call in progress
    slept,            \* the time slept since the latest HTTP request
    last_gap,         \* the time slept between the two latest HTTP requests
    requested,        \* whether an HTTP request was issued yet
    any_retry,        \* whether an HTTP request was answered by other than 200
    returned_log,     \* one entry per safe_api_call a paginator made
    \* the paginators' frame (get_all_set_names, search_cards)
    ppc,              \* "idle", "sets", "cards" (in the loop) or "returned"
    page,
    all_records,      \* all_sets or all_cards
    max_pages,
    page_result,      \* the value the paginator returned
    api_total,        \* the totalCount the API reports for the listing
    \* track_multiple_sets_to_csv's frame
    tpc,              \* where the run stands: "catalog", "sets", "search", ...
    set_names,        \* the user's list
    set_index,        \* the position of the for loop in it
    set_name_mapping,
    total_cards,
    card_index,
    all_price_data,
    files,            \* the artifacts written: name -> content
    raised,           \* the exception that ended the run, "none" if none
    track_result      \* "running", "None" or "df"

resolverVars == <<target_name, available_sets, matched_set, rpc>>

sortVars == <<df, sorted_df, spc>>

callVars == <<fpc, endpoint, params_page, max_retries, backoff_factor, retries,
              response_data>>

historyVars == <<attempts, slept, last_gap, requested, any_retry, returned_log>>

pageVars == <<ppc, page, all_records, max_pages, page_result, api_total>>

trackVars == <<tpc, set_names, set_index, set_name_mapping, total_cards,
               card_index, all_price_data, files, raised, track_result>>

vars == <<resolverVars, sortVars, rate_limit_delay, op, callVars, historyVars,
          pageVars, trackVars>>

---------------------------------------------------------------------------
(* Characters and strings.                                                 *)

EmDash == "U+2014"

UpperCase == <<"A","B","C","D","E","F","G","H","I","J","K","L","M","N","O","P","Q","R","S","T","U","V","W","X","Y","Z">>

LowerCase == <<"a","b","c","d","e","f","g","h","i","j","k","l","m","n","o","p","q","r","s","t","u","v","w","x","y","z">>

Digits == <<"0","1","2","3","4","5","6","7","8","9">>

\* Python's None.  No str equals it: every element of a str is one character.
None == <<"<None>">>

Range(s) == {s[i] : i \in 1..Len(s)}

IndexIn(c, table) == CHOOSE i \in 1..Len(table) : table[i] = c

\* str.lower(), one character
LowerChar(c) == IF c \in Range(UpperCase) THEN LowerCase[IndexIn(c, UpperCase)] ELSE c

\* str.lower()
lower(s) == [i \in 1..Len(s) |-> LowerChar(s[i])]

\* Python's `sub in s` on two str
Contains(sub, s) ==
    \E i \in 0..(Len(s) - Len(sub)) : SubSeq(s, i + 1, i + Len(sub)) = sub

\* s.split(sep)[0]: what precedes the first occurrence of sep, or all of s
SplitFirst(s, sep) ==
    IF Contains(sep, s)
    THEN LET first == CHOOSE i \in 0..(Len(s) - Len(sep)) :
                          /\ SubSeq(s, i + 1, i + Len(sep)) = sep
                          /\ \A j \in 0..(i - 1) : SubSeq(s, j + 1, j + Len(sep)) # sep
         IN  SubSeq(s, 1, first)
    ELSE s

\* the characters str.strip() removes and the regex class \s matches
IsSpace(c) == c \in {" ", "\t", "\n", "\r"}

\* str.strip()
strip(s) ==
    IF \A i \in 1..Len(s) : IsSpace(s[i])
    THEN <<>>
    ELSE LET lo == CHOOSE i \in 1..Len(s) :
                       ~IsSpace(s[i]) /\ \A j \in 1..(i - 1) : IsSpace(s[j])
             hi == CHOOSE i \in 1..Len(s) :
                       ~IsSpace(s[i]) /\ \A j \in (i + 1)..Len(s) : IsSpace(s[j])
         IN  SubSeq(s, lo, hi)

\* a variant class: the ASCII hyphen only, no em-dash
IsSeparatorNoEmDash(c) == c \in {"-", "_", "&"} \/ IsSpace(c)

\* the character class [-\u2014_&\s] of the two re.split calls
IsSeparator(c) == c \in {"-", EmDash, "_", "&"} \/ IsSpace(c)

RECURSIVE SplitFrom(_, _, _, _)
\* re.split(r'[-\u2014_&\s]+', s) from position i on: `cur` is the piece being
\* read and `out` the pieces closed so far.  A maximal run of separators closes
\* one piece, so a string that starts or ends with a separator yields an empty
\* piece there, and the empty string yields one empty piece.
SplitFrom(s, i, cur, out) ==
    IF i > Len(s) THEN Append(out, cur)
    ELSE IF IsSeparator(s[i])
         THEN IF i > 1 /\ IsSeparator(s[i - 1])
              THEN SplitFrom(s, i + 1, cur, out)
              ELSE SplitFrom(s, i + 1, <<>>, Append(out, cur))
         ELSE SplitFrom(s, i + 1, Append(cur, s[i]), out)

re_split(s) == SplitFrom(s, 1, <<>>, <<>>)

---------------------------------------------------------------------------
(* find_closest_set_name                                                   *)

BlackStarPromos == <<"B","l","a","c","k"," ","S","t","a","r"," ","P","r","o","m","o","s">>

BlackStar == <<"B","l","a","c","k"," ","S","t","a","r">>

\* `target_name in available_sets`
ExactMatch(target, available) == \E i \in 1..Len(available) : available[i] = target

\* the entries the case-insensitive loop would return, in list order
CaseInsensitiveMatches(target, available) ==
    SelectSeq(available, LAMBDA s : lower(s) = lower(target))

\* the entries the "Black Star Promos" loop would return, in list order
PromoMatches(target, available) ==
    IF Contains(BlackStarPromos, target)
    THEN SelectSeq(available,
                   LAMBDA s : /\ Contains(strip(SplitFirst(target, BlackStar)), s)
                              /\ Contains(BlackStarPromos, s))
    ELSE <<>>

\* matches = [s for s in available_sets if target_name.lower() in s.lower()]
PartialMatches(target, available) ==
    SelectSeq(available, LAMBDA s : Contains(lower(target), lower(s)))

RECURSIVE CountTerms(_, _, _)
\* sum(1 for term in target_terms if term in set_terms), from term i on
CountTerms(target_terms, set_terms, i) ==
    IF i > Len(target_terms) THEN 0
    ELSE (IF target_terms[i] \in Range(set_terms) THEN 1 ELSE 0)
         + CountTerms(target_terms, set_terms, i + 1)

matched_terms(target, s) == CountTerms(re_split(lower(target)), re_split(lower(s)), 1)

\* a variant comparison: a later entry with an equal count replaces the best
BetterMatchOrEqual(count, most_terms_matched) == count >= most_terms_matched

\* `if matched_terms > most_terms_matched`
BetterMatch(count, most_terms_matched) == count > most_terms_matched

RECURSIVE BestMatchFrom(_, _, _, _, _)
\* the scoring loop from entry i on, with the loop's two variables
BestMatchFrom(target, available, i, best_match, most_terms_matched) ==
    IF i > Len(available) THEN best_match
    ELSE LET count == matched_terms(target, available[i])
         IN  IF BetterMatch(count, most_terms_matched)
             THEN BestMatchFrom(target, available, i + 1, available[i], count)
             ELSE BestMatchFrom(target, available, i + 1, best_match, most_terms_matched)

\* the tiers after the exact one
FuzzyMatch(target, available) ==
    IF CaseInsensitiveMatches(target, available) # <<>>
    THEN CaseInsensitiveMatches(target, available)[1]
    ELSE IF PromoMatches(target, available) # <<>>
    THEN PromoMatches(target, available)[1]
    ELSE IF PartialMatches(target, available) # <<>>
    THEN PartialMatches(target, available)[1]
    ELSE BestMatchFrom(target, available, 1, None, 0)

\* a variant resolver: the exact tier is gone
find_closest_set_name_no_exact(target, available) == FuzzyMatch(target, available)

find_closest_set_name(target, available) ==
    IF ExactMatch(target, available) THEN target ELSE FuzzyMatch(target, available)

---------------------------------------------------------------------------
(* The sort of the price rows: extract_number, extract_letter, sort_values *)

\* the characters of the model in code point order
CodePoints ==
    <<"\t", "\n", "\r", " ", "&", "-">> \o Digits \o UpperCase \o <<"_">>
        \o LowerCase \o <<EmDash>>

Ord(c) == IndexIn(c, CodePoints)

RECURSIVE StrLessFrom(_, _, _)
\* Python's a < b on two str, from position i on
StrLessFrom(a, b, i) ==
    IF i > Len(b) THEN FALSE
    ELSE IF i > Len(a) THEN TRUE
    ELSE IF a[i] # b[i] THEN Ord(a[i]) < Ord(b[i])
    ELSE StrLessFrom(a, b, i + 1)

StrLess(a, b) == StrLessFrom(a, b, 1)

\* \d
DigitClass == Range(Digits)

IsDigit(c) == c \in DigitClass

\* [a-zA-Z]
LetterClass == Range(UpperCase) \cup Range(LowerCase)

\* the first maximal run of characters of the class, as re.search finds
\* it; <<>> when s holds none
FirstRun(s, class) ==
    IF \A i \in 1..Len(s) : s[i] \notin class
    THEN <<>>
    ELSE LET lo == CHOOSE i \in 1..Len(s) :
                       s[i] \in class /\ \A j \in 1..(i - 1) : s[j] \notin class
             hi == CHOOSE i \in lo..Len(s) :
                       /\ \A j \in lo..i : s[j] \in class
                       /\ (i = Len(s) \/ s[i + 1] \notin class)
         IN  SubSeq(s, lo, hi)

RECURSIVE IntOf(_, _)
\* int() of a digit string: acc is the value of what was read
IntOf(digits, acc) ==
    IF digits = <<>> THEN acc
    ELSE IntOf(Tail(digits), 10 * acc + (IndexIn(Head(digits), Digits) - 1))

\* float('inf') and a finite number, as pairs ordered by NumLess
Inf == <<1, 0>>

Finite(n) == <<0, n>>

NumLess(x, y) == x[1] < y[1] \/ (x[1] = y[1] /\ x[2] < y[2])

\* re.search(r'(\d+)', str(num_str)): the first digit run anywhere in the string
extract_number(num_str) ==
    IF FirstRun(num_str, DigitClass) = <<>> THEN Inf
    ELSE Finite(IntOf(FirstRun(num_str, DigitClass), 0))

\* re.search(r'([a-zA-Z]+)', str(num_str))
extract_letter(num_str) == FirstRun(num_str, LetterClass)

\* row a sorts strictly before row b under
\* sort_values(['set', 'numeric_part', 'alpha_part', 'condition'])
RowLess(a, b) ==
    \/ StrLess(a.set, b.set)
    \/ /\ a.set = b.set
       /\ \/ NumLess(extract_number(a.number), extract_number(b.number))
          \/ /\ extract_number(a.number) = extract_number(b.number)
             /\ \/ StrLess(extract_letter(a.number), extract_letter(b.number))
                \/ /\ extract_letter(a.number) = extract_letter(b.number)
                   /\ StrLess(a.condition, b.condition)

\* row r put into the sorted rows behind every row that is not greater
Insert(r, rows) ==
    LET k == Cardinality({i \in 1..Len(rows) : ~RowLess(r, rows[i])})
    IN  SubSeq(rows, 1, k) \o <<r>> \o SubSeq(rows, k + 1, Len(rows))

RECURSIVE SortFrom(_, _, _)
SortFrom(rows, i, out) ==
    IF i > Len(rows) THEN out ELSE SortFrom(rows, i + 1, Insert(rows[i], out))

\* df.sort_values([...]): a stable sort on the four keys
sort_values(rows) == SortFrom(rows, 1, <<>>)

---------------------------------------------------------------------------
(* The HTTP adapter's answers.                                             *)

\* "pageSize": 250
PageSize == 250

\* DEFAULT_RATE_LIMIT_DELAY = 1.0, in tenths of a second
DEFAULT_RATE_LIMIT_DELAY == 10

\* the default of safe_api_call's max_retries
DEFAULT_MAX_RETRIES == 3

\* the default of safe_api_call's backoff_factor
DEFAULT_BACKOFF_FACTOR == 2

\* the default of search_cards' max_pages
DEFAULT_MAX_PAGES == 10

\* api_total of a listing whose responses carry no count and totalCount
NoCount == 0 - 1

\* last_gap before the second request
NoGap == 0 - 1

\* safe_api_call's None
NoneResponse ==
    [is_none |-> TRUE, has_data |-> FALSE, data |-> <<>>,
     has_counts |-> FALSE, count |-> 0, totalCount |-> 0]

\* a parsed body that has no 'data' key
NoDataBody ==
    [is_none |-> FALSE, has_data |-> FALSE, data |-> <<>>,
     has_counts |-> FALSE, count |-> 0, totalCount |-> 0]

\* a parsed body {data, count, totalCount} of a listing that reports `total`
PageBody(data, total) ==
    [is_none |-> FALSE, has_data |-> TRUE, data |-> data,
     has_counts |-> total # NoCount,
     count |-> IF total = NoCount THEN 0 ELSE Len(data),
     totalCount |-> IF total = NoCount THEN 0 ELSE total]

\* a parsed body {data: card} of GET /cards/{id}
CardBody(card) ==
    [is_none |-> FALSE, has_data |-> TRUE, data |-> card,
     has_counts |-> FALSE, count |-> 0, totalCount |-> 0]

RECURSIVE Decimal(_)
\* str(n) of a natural number
Decimal(n) == IF n < 10 THEN <<Digits[n + 1]>> ELSE Append(Decimal(n \div 10), Digits[(n % 10) + 1])

\* record k of a listing: its id and its name
BulkRecord(k) == [id |-> k, name |-> Decimal(k)]

\* the n records of page p of a listing served in pages of PageSize
BulkRecords(p, n) == [i \in 1..n |-> BulkRecord((p - 1) * PageSize + i)]

RECURSIVE Pow(_, _)
Pow(b, n) == IF n = 0 THEN 1 ELSE b * Pow(b, n - 1)

---------------------------------------------------------------------------
(* safe_api_call                                                           *)

\* a variant test: one request fewer
LoopGuardStrict(n, max) == n < max

\* `while retries <= max_retries`
LoopGuard(n, max) == n <= max

\* a variant wait: computed from the count after its increment
WaitTime429Incremented(delay, factor, n) == delay * Pow(factor, n + 1)

\* wait_time of the 429 branch, computed before `retries += 1`
WaitTime429(delay, factor, n) == delay * Pow(factor, n)

\* a variant wait of the except branch: computed before the increment, as the
\* 429 branch computes its own
WaitTimeExceptionBeforeIncrement(delay, factor, n) == delay * Pow(factor, n)

\* wait_time of the except branch, computed after `retries += 1`, n being the
\* count before it
WaitTimeException(delay, factor, n) == delay * Pow(factor, n + 1)

\* the frame of safe_api_call(url, params, max, factor) at its first while test
EnterCall(url, p, max, factor) ==
    /\ endpoint' = url
    /\ params_page' = p
    /\ max_retries' = max
    /\ backoff_factor' = factor
    /\ retries' = 0
    /\ attempts' = <<>>
    /\ fpc' = IF LoopGuard(0, max) THEN "loop" ELSE "returned"
    /\ response_data' = NoneResponse

\* requests.get is called: the sleep since the request before it is on record
Request(status, wait, pause) ==
    /\ fpc = "loop"
    /\ attempts' = Append(attempts, [status |-> status, wait |-> wait, pause |-> pause])
    /\ last_gap' = IF requested THEN slept ELSE NoGap
    /\ requested' = TRUE
    /\ slept' = wait + pause
    /\ any_retry' = (any_retry \/ status # "200")

\* `return`: a paginator's call goes on its record
Return(value) ==
    /\ fpc' = "returned"
    /\ response_data' = value
    /\ returned_log' =
          IF ppc \in {"sets", "cards"} /\ endpoint # "card"
          THEN Append(returned_log,
                      [url |-> endpoint,
                       page |-> params_page,
                       kind |-> IF value.is_none THEN "failed"
                                ELSE IF ~value.has_data THEN "nodata" ELSE "data",
                       n |-> IF value.has_data THEN Len(value.data) ELSE 0])
          ELSE returned_log
---------------------------------------------------------------------------
(* The resolver's inputs.                                                  *)

N_BaseSet == <<"B","a","s","e"," ","S","e","t">>

N_TeamRocket == <<"T","e","a","m"," ","R","o","c","k","e","t">>

N_RocketGang == <<"R","o","c","k","e","t"," ","G","a","n","g">>

N_rocket_team == <<"r","o","c","k","e","t"," ","&"," ","t","e","a","m">>

N_BaseEmPromos == <<"B","a","s","e","U+2014","B","l","a","c","k"," ","S","t","a","r"," ","P","r","o","m","o","s">>

N_BaseSet2Promos == <<"B","a","s","e"," ","S","e","t"," ","2","U+2014","B","l","a","c","k"," ","S","t","a","r"," ","P","r","o","m","o","s">>

N_BASESETPROMOS == <<"B","A","S","E"," ","S","E","T"," ","B","L","A","C","K"," ","S","T","A","R"," ","P","R","O","M","O","S">>

N_BaseSetPromos == <<"B","a","s","e"," ","S","e","t"," ","B","l","a","c","k"," ","S","t","a","r"," ","P","r","o","m","o","s">>

N_PromosScrambled == <<"P","r","o","m","o","s"," ","S","t","a","r"," ","B","l","a","c","k"," ","S","e","t"," ","B","a","s","e">>

N_Jungle == <<"J","u","n","g","l","e">>

N_Rocket == <<"R","o","c","k","e","t">>

N_TeamDashRocket == <<"T","e","a","m","-","R","o","c","k","e","t">>

N_Fossil == <<"F","o","s","s","i","l">>

\* the canonical names a catalog may hold
NamePool ==
    { N_BaseSet, N_TeamRocket, N_RocketGang, N_rocket_team,
      N_BaseEmPromos, N_BaseSet2Promos, N_BASESETPROMOS, N_BaseSetPromos,
      N_PromosScrambled }

\* the names a user may type
TargetPool == { N_BaseSet, N_Rocket, N_TeamDashRocket, N_BaseSetPromos, N_Fossil }

\* the longest available_sets list tried
MaxSets == 3

SeqsUpTo(S, n) == UNION { [1..k -> S] : k \in 0..n }

---------------------------------------------------------------------------
(* The sort's inputs.                                                      *)

Num_9 == <<"9">>

Num_10 == <<"1","0">>

Num_TG1 == <<"T","G","1">>

Num_2 == <<"2">>

NumberPool == { Num_9, Num_10, Num_TG1, Num_2 }

Cond_normal == <<"n","o","r","m","a","l">>

Cond_holofoil == <<"h","o","l","o","f","o","i","l">>

ConditionPool == { Cond_normal, Cond_holofoil }

SortSetPool == { N_Jungle, N_BaseSet }

RowPool == [set : SortSetPool, number : NumberPool, condition : ConditionPool]

\* the most rows sorted
MaxRows == 4


---------------------------------------------------------------------------
(* The inputs of the fetcher and of the paginators.                        *)

\* rate_limit_delay as constructed: the default 1.0 and main()'s 1.5
DelayPool == { DEFAULT_RATE_LIMIT_DELAY, 15 }

\* the largest max_retries a client passes
MaxRetriesArg == 3

\* the backoff factors a client passes
FactorPool == { 1, 2, 3 }

\* the most pages a listing is followed for, and the largest max_pages passed
MaxPages == 3

\* the lengths of the pages the API serves: empty, one record, full
PageLens == { 0, 1, PageSize }

\* the totalCount a listing reports: none, or full pages with or without one
\* more record
Totals ==
    {NoCount} \cup {PageSize * k : k \in 1..MaxPages}
              \cup {PageSize * k + 1 : k \in 0..MaxPages}

---------------------------------------------------------------------------
(* The inputs of track_multiple_sets_to_csv.                               *)

\* the names the user asks for
TrackTargets == { N_Jungle, N_Fossil }

\* the longest list the user passes
MaxUserSets == 2

\* the first page of the catalog: empty, or two sets
ShopCatalogs ==
    { <<>>, <<[id |-> 1, name |-> N_Jungle], [id |-> 2, name |-> N_BaseSet]>> }

\* card k of a set, as the search returns it
ShopCard(k) == [id |-> k, name |-> Decimal(k)]

\* the first page of a card search: no card, or two
ShopCardLists == { <<>>, <<ShopCard(1), ShopCard(2)>> }

\* the card numbers of cards 1, 2, ...
ShopNumbers == <<Num_TG1, Num_2, Num_9, Num_10>>

\* a market price that is null
NoMarket == 0 - 1

\* the tcgplayer.prices blocks of a card: a null market price, with or
\* without a condition that has one
ShopPrices ==
    { <<[condition |-> Cond_holofoil, market |-> NoMarket],
        [condition |-> Cond_normal, market |-> 5]>>,
      <<[condition |-> Cond_holofoil, market |-> NoMarket]>> }

\* the card records GET /cards/{id} may return for card k of set s
ShopCardDetails(k, s) ==
    { [name |-> Decimal(k), set |-> s, number |-> ShopNumbers[k],
       has_prices |-> FALSE, prices |-> <<>>] }
    \cup { [name |-> Decimal(k), set |-> s, number |-> ShopNumbers[k],
            has_prices |-> TRUE, prices |-> p] : p \in ShopPrices }

\* the totalCount a listing reports during a tracked run
TrackTotals == { NoCount, 1 }

\* the bodies the API may answer a 200 with.  A client's own call reads a
\* listing served in pages of PageSize; a tracked run reads a small shop.
PageChoices(o, url, p) ==
    IF o # "track"
    THEN {NoDataBody} \cup {PageBody(BulkRecords(p, n), api_total) : n \in PageLens}
    ELSE {NoDataBody} \cup
         CASE url = "sets" ->
                  {PageBody(c, api_total) : c \in (IF p = 1 THEN ShopCatalogs ELSE {<<>>})}
           [] url = "cards" ->
                  {PageBody(c, api_total) : c \in (IF p = 1 THEN ShopCardLists ELSE {<<>>})}
           [] OTHER ->
                  {CardBody(d) : d \in ShopCardDetails(total_cards[card_index].id,
                                                       set_name_mapping[set_names[set_index]])}
---------------------------------------------------------------------------
(* safe_api_call: one HTTP request and what the loop does with the answer  *)

\* what no step of safe_api_call changes
CallerUnchanged ==
    UNCHANGED <<rate_limit_delay, op, endpoint, params_page, max_retries,
                backoff_factor, pageVars, trackVars, resolverVars, sortVars>>

\* status 200: `return response.json()`
Attempt200 ==
    /\ fpc = "loop"
    /\ \E body \in PageChoices(op, endpoint, params_page) :
          /\ Request("200", 0, 0)
          /\ Return(body)
    /\ UNCHANGED retries
    /\ CallerUnchanged

\* status 429: sleep wait_time, `retries += 1`, `continue`; the while test
\* then either lets the next request go or falls through to `return None`
Attempt429 ==
    /\ Request("429", WaitTime429(rate_limit_delay, backoff_factor, retries), 0)
    /\ retries' = retries + 1
    /\ IF LoopGuard(retries + 1, max_retries)
       THEN UNCHANGED <<fpc, response_data, returned_log>>
       ELSE Return(NoneResponse)
    /\ CallerUnchanged

\* any other status: `return None`
AttemptOther ==
    /\ Request("other", 0, 0)
    /\ Return(NoneResponse)
    /\ UNCHANGED retries
    /\ CallerUnchanged

\* requests.get raises: `retries += 1`, then either the backoff sleep followed
\* by the sleep that ends the loop body, or `return None`
AttemptException ==
    /\ IF retries + 1 <= max_retries
       THEN /\ Request("exception",
                       WaitTimeException(rate_limit_delay, backoff_factor, retries),
                       rate_limit_delay)
            /\ IF LoopGuard(retries + 1, max_retries)
               THEN UNCHANGED <<fpc, response_data, returned_log>>
               ELSE Return(NoneResponse)
       ELSE /\ Request("exception", 0, 0)
            /\ Return(NoneResponse)
    /\ retries' = retries + 1
    /\ CallerUnchanged

---------------------------------------------------------------------------
(* get_all_set_names and search_cards                                      *)

NoResult == [kind |-> "none", names |-> <<>>, records |-> <<>>]

\* `return []`
EmptyList == [kind |-> "list", names |-> <<>>, records |-> <<>>]

\* `return set_names, all_sets`
NamesAndSets(all_sets) ==
    [kind |-> "pair",
     names |-> [i \in 1..Len(all_sets) |-> all_sets[i].name],
     records |-> all_sets]

\* `return all_cards`
CardList(all_cards) == [kind |-> "list", names |-> <<>>, records |-> all_cards]

\* self.safe_api_call(endpoint, params), with the defaults for the rest
CallPage(url, p) == EnterCall(url, p, DEFAULT_MAX_RETRIES, DEFAULT_BACKOFF_FACTOR)

\* `not response_data or 'data' not in response_data`
Unusable(response) == response.is_none \/ ~response.has_data

\* the paginator returns `result`
PaginatorReturn(result) ==
    /\ ppc' = "returned"
    /\ page_result' = result
    /\ fpc' = "idle"
    /\ UNCHANGED <<endpoint, params_page, max_retries, backoff_factor, retries,
                   response_data, attempts>>

\* what no step of a paginator changes
PaginatorUnchanged ==
    UNCHANGED <<rate_limit_delay, op, max_pages, api_total, slept, last_gap,
                requested, any_retry, returned_log, trackVars, resolverVars,
                sortVars>>

\* get_all_set_names up to its first request; the listing reports `total`
EnterSets(total) ==
    /\ ppc' = "sets"
    /\ page' = 1
    /\ all_records' = <<>>
    /\ page_result' = NoResult
    /\ api_total' = total
    /\ max_pages' = 0
    /\ returned_log' = <<>>
    /\ CallPage("sets", 1)

\* a variant test: one page more than max_pages
PageGuardLoose(p, limit) == p <= limit + 1

\* `while page <= max_pages`
PageGuard(p, limit) == p <= limit

\* search_cards(query, limit) whose first `while page <= max_pages` test fails:
\* `return all_cards` with no request
EnterCardsNoPage(total, limit) ==
    /\ ppc' = "returned"
    /\ page' = 1
    /\ all_records' = <<>>
    /\ page_result' = CardList(<<>>)
    /\ api_total' = total
    /\ max_pages' = limit
    /\ returned_log' = <<>>
    /\ UNCHANGED <<callVars, attempts>>

\* search_cards(query, limit) up to its first request
EnterCards(total, limit) ==
    /\ ppc' = "cards"
    /\ page' = 1
    /\ all_records' = <<>>
    /\ page_result' = NoResult
    /\ api_total' = total
    /\ max_pages' = limit
    /\ returned_log' = <<>>
    /\ CallPage("cards", 1)

\* a variant failure branch: a failed page is an error on every page
SetsFailedResultAlways(p, all_sets) == EmptyList

\* `if page == 1: return [] else: break`
SetsFailedResult(p, all_sets) ==
    IF p = 1 THEN EmptyList ELSE NamesAndSets(all_sets)

\* the fetch failed or the body has no 'data'
SetsFailed ==
    /\ ppc = "sets" /\ fpc = "returned"
    /\ Unusable(response_data)
    /\ PaginatorReturn(SetsFailedResult(page, all_records))
    /\ UNCHANGED <<page, all_records>>
    /\ PaginatorUnchanged

\* `if not sets_data: break`
SetsEmpty ==
    /\ ppc = "sets" /\ fpc = "returned"
    /\ ~Unusable(response_data)
    /\ response_data.data = <<>>
    /\ PaginatorReturn(NamesAndSets(all_records))
    /\ UNCHANGED <<page, all_records>>
    /\ PaginatorUnchanged

\* `'count' in response_data and 'totalCount' in response_data` and
\* `response_data['count'] * page >= response_data['totalCount']`
SetsLastPage(response, p) ==
    response.has_counts /\ response.count * p >= response.totalCount

\* the page is appended and the count test ends the loop
SetsLast ==
    /\ ppc = "sets" /\ fpc = "returned"
    /\ ~Unusable(response_data)
    /\ response_data.data # <<>>
    /\ SetsLastPage(response_data, page)
    /\ all_records' = all_records \o response_data.data
    /\ PaginatorReturn(NamesAndSets(all_records'))
    /\ UNCHANGED page
    /\ PaginatorUnchanged

\* the page is appended, `page += 1`, and the next page is requested
SetsMore ==
    /\ ppc = "sets" /\ fpc = "returned"
    /\ ~Unusable(response_data)
    /\ response_data.data # <<>>
    /\ ~SetsLastPage(response_data, page)
    /\ page < MaxPages
    /\ all_records' = all_records \o response_data.data
    /\ page' = page + 1
    /\ CallPage("sets", page + 1)
    /\ UNCHANGED <<ppc, page_result>>
    /\ PaginatorUnchanged

\* `if not response_data or 'data' not in response_data: break`
CardsFailed ==
    /\ ppc = "cards" /\ fpc = "returned"
    /\ Unusable(response_data)
    /\ PaginatorReturn(CardList(all_records))
    /\ UNCHANGED <<page, all_records>>
    /\ PaginatorUnchanged

\* `if not page_cards: break`
CardsEmpty ==
    /\ ppc = "cards" /\ fpc = "returned"
    /\ ~Unusable(response_data)
    /\ response_data.data = <<>>
    /\ PaginatorReturn(CardList(all_records))
    /\ UNCHANGED <<page, all_records>>
    /\ PaginatorUnchanged

\* a variant test: a strict comparison
CardsLastPageStrict(response, all_cards) ==
    response.has_counts /\ Len(all_cards) > response.totalCount

\* `'count' in response_data and 'totalCount' in response_data` and
\* `page_cards and len(all_cards) >= response_data['totalCount']`
CardsLastPage(response, all_cards) ==
    response.has_counts /\ Len(all_cards) >= response.totalCount

\* the page is appended and the totalCount test ends the loop
CardsLast ==
    /\ ppc = "cards" /\ fpc = "returned"
    /\ ~Unusable(response_data)
    /\ response_data.data # <<>>
    /\ CardsLastPage(response_data, all_records \o response_data.data)
    /\ all_records' = all_records \o response_data.data
    /\ PaginatorReturn(CardList(all_records'))
    /\ UNCHANGED page
    /\ PaginatorUnchanged

\* the page is appended, `page += 1`, and `while page <= max_pages` lets the
\* next page be requested
CardsMore ==
    /\ ppc = "cards" /\ fpc = "returned"
    /\ ~Unusable(response_data)
    /\ response_data.data # <<>>
    /\ ~CardsLastPage(response_data, all_records \o response_data.data)
    /\ PageGuard(page + 1, max_pages)
    /\ all_records' = all_records \o response_data.data
    /\ page' = page + 1
    /\ CallPage("cards", page + 1)
    /\ UNCHANGED <<ppc, page_result>>
    /\ PaginatorUnchanged

\* the page is appended, `page += 1`, and `while page <= max_pages` ends the loop
CardsCeiling ==
    /\ ppc = "cards" /\ fpc = "returned"
    /\ ~Unusable(response_data)
    /\ response_data.data # <<>>
    /\ ~CardsLastPage(response_data, all_records \o response_data.data)
    /\ ~PageGuard(page + 1, max_pages)
    /\ all_records' = all_records \o response_data.data
    /\ page' = page + 1
    /\ PaginatorReturn(CardList(all_records'))
    /\ PaginatorUnchanged

---------------------------------------------------------------------------
(* track_multiple_sets_to_csv                                              *)

NotFound == <<"N","o","t"," ","f","o","u","n","d">>

\* `not matched_set`: None and the empty str are both false
Falsy(s) == s = None \/ s = <<>>

\* d[key] = value on a dict, and a file written under a name
DictSet(d, key, value) ==
    [k \in (DOMAIN d) \cup {key} |-> IF k = key THEN value ELSE d[k]]

RECURSIVE MarketRows(_, _, _)
\* the rows of one card: one per condition whose market price is not None
MarketRows(card_id, card, i) ==
    IF i > Len(card.prices) THEN <<>>
    ELSE (IF card.prices[i].market # NoMarket
          THEN <<[id |-> card_id, name |-> card.name, set |-> card.set,
                  number |-> card.number,
                  condition |-> card.prices[i].condition,
                  price |-> card.prices[i].market]>>
          ELSE <<>>)
         \o MarketRows(card_id, card, i + 1)

\* get_card_prices(card_id) from safe_api_call's return on, and the rows
\* track_multiple_sets_to_csv appends for what it returns
PriceRows(card_id, response) ==
    IF Unusable(response) THEN <<>>
    ELSE IF ~response.data.has_prices THEN <<>>
    ELSE MarketRows(card_id, response.data, 1)

\* what no step of the run itself changes
TrackUnchanged ==
    UNCHANGED <<rate_limit_delay, op, slept, last_gap, requested, any_retry,
                resolverVars, sortVars>>

\* the paginator's frame is left as it returned
PaginatorLeft ==
    UNCHANGED <<page, all_records, max_pages, page_result, api_total, returned_log>>

\* safe_api_call's frame is left as it returned
CallLeft ==
    UNCHANGED <<fpc, endpoint, params_page, max_retries, backoff_factor, retries,
                response_data, attempts>>

\* the call, up to the first request of get_all_set_names
TrackMultipleSets ==
    /\ op = "idle"
    /\ op' = "track"
    /\ set_names' \in SeqsUpTo(TrackTargets, MaxUserSets)
    /\ tpc' = "catalog"
    /\ \E total \in TrackTotals : EnterSets(total)
    /\ UNCHANGED <<rate_limit_delay, slept, last_gap, requested, any_retry,
                   set_index, set_name_mapping, total_cards, card_index,
                   all_price_data, files, raised, track_result, resolverVars,
                   sortVars>>

\* `available_set_names, all_sets_data = self.get_all_set_names()` when
\* get_all_set_names returned `[]`: the unpacking of an empty list raises
TrackUnpackFails ==
    /\ tpc = "catalog" /\ ppc = "returned"
    /\ page_result.kind = "list"
    /\ raised' = "ValueError"
    /\ tpc' = "raised"
    /\ ppc' = "idle"
    /\ UNCHANGED <<set_names, set_index, set_name_mapping, total_cards,
                   card_index, all_price_data, files, track_result>>
    /\ PaginatorLeft /\ CallLeft /\ TrackUnchanged

\* `if not available_set_names: return None`
TrackNoCatalog ==
    /\ tpc = "catalog" /\ ppc = "returned"
    /\ page_result.kind = "pair"
    /\ page_result.names = <<>>
    /\ track_result' = "None"
    /\ tpc' = "returned"
    /\ ppc' = "idle"
    /\ UNCHANGED <<set_names, set_index, set_name_mapping, total_cards,
                   card_index, all_price_data, files, raised>>
    /\ PaginatorLeft /\ CallLeft /\ TrackUnchanged

\* the catalog is saved and the for loop over set_names is entered
TrackCatalog ==
    /\ tpc = "catalog" /\ ppc = "returned"
    /\ page_result.kind = "pair"
    /\ page_result.names # <<>>
    /\ available_sets' = page_result.names
    /\ files' = DictSet(files, "all_set_data.json", page_result.records)
    /\ all_price_data' = <<>>
    /\ set_name_mapping' = <<>>
    /\ set_index' = 1
    /\ tpc' = "sets"
    /\ ppc' = "idle"
    /\ UNCHANGED <<set_names, total_cards, card_index, raised, track_result>>
    /\ PaginatorLeft /\ CallLeft
    /\ UNCHANGED <<rate_limit_delay, op, slept, last_gap, requested, any_retry,
                   target_name, matched_set, rpc, sortVars>>

\* one pass of the for loop for a name that resolves to nothing
TrackNotFound ==
    /\ tpc = "sets"
    /\ set_index <= Len(set_names)
    /\ Falsy(find_closest_set_name(set_names[set_index], available_sets))
    /\ set_name_mapping' = DictSet(set_name_mapping, set_names[set_index], NotFound)
    /\ set_index' = set_index + 1
    /\ UNCHANGED <<tpc, ppc, set_names, total_cards, card_index, all_price_data,
                   files, raised, track_result>>
    /\ PaginatorLeft /\ CallLeft /\ TrackUnchanged

\* one pass of the for loop for a name that resolves, up to the first request
\* of search_cards(query)
TrackSearch ==
    /\ tpc = "sets"
    /\ set_index <= Len(set_names)
    /\ ~Falsy(find_closest_set_name(set_names[set_index], available_sets))
    /\ set_name_mapping' =
          DictSet(set_name_mapping, set_names[set_index],
                  find_closest_set_name(set_names[set_index], available_sets))
    /\ tpc' = "search"
    /\ \E total \in TrackTotals : EnterCards(total, DEFAULT_MAX_PAGES)
    /\ UNCHANGED <<set_names, set_index, total_cards, card_index, all_price_data,
                   files, raised, track_result>>
    /\ TrackUnchanged

\* `if not total_cards: continue`
TrackNoCards ==
    /\ tpc = "search" /\ ppc = "returned"
    /\ page_result.records = <<>>
    /\ set_index' = set_index + 1
    /\ tpc' = "sets"
    /\ ppc' = "idle"
    /\ UNCHANGED <<set_names, set_name_mapping, total_cards, card_index,
                   all_price_data, files, raised, track_result>>
    /\ PaginatorLeft /\ CallLeft /\ TrackUnchanged

\* self.safe_api_call(endpoint) of get_card_prices
CallCard == EnterCall("card", 0, DEFAULT_MAX_RETRIES, DEFAULT_BACKOFF_FACTOR)

\* the card loop is entered, up to the first request of get_card_prices
TrackCards ==
    /\ tpc = "search" /\ ppc = "returned"
    /\ page_result.records # <<>>
    /\ total_cards' = page_result.records
    /\ card_index' = 1
    /\ tpc' = "prices"
    /\ ppc' = "idle"
    /\ CallCard
    /\ UNCHANGED <<set_names, set_index, set_name_mapping, all_price_data, files,
                   raised, track_result>>
    /\ PaginatorLeft /\ TrackUnchanged

\* the rows of a card are appended and the next card's prices are requested
TrackPriceNext ==
    /\ tpc = "prices" /\ fpc = "returned"
    /\ card_index < Len(total_cards)
    /\ all_price_data' =
          all_price_data \o PriceRows(total_cards[card_index].id, response_data)
    /\ card_index' = card_index + 1
    /\ CallCard
    /\ UNCHANGED <<tpc, ppc, set_names, set_index, set_name_mapping, total_cards,
                   files, raised, track_result>>
    /\ PaginatorLeft /\ TrackUnchanged

\* the rows of the set's last card are appended and the for loop goes on
TrackPriceLast ==
    /\ tpc = "prices" /\ fpc = "returned"
    /\ card_index = Len(total_cards)
    /\ all_price_data' =
          all_price_data \o PriceRows(total_cards[card_index].id, response_data)
    /\ set_index' = set_index + 1
    /\ tpc' = "sets"
    /\ fpc' = "idle"
    /\ UNCHANGED <<ppc, set_names, set_name_mapping, total_cards, card_index,
                   files, raised, track_result>>
    /\ UNCHANGED <<endpoint, params_page, max_retries, backoff_factor, retries,
                   response_data, attempts>>
    /\ PaginatorLeft /\ TrackUnchanged

\* the cells of the pivot table: one price per card and condition
PivotCells(rows) ==
    {[set |-> rows[i].set, number |-> rows[i].number, name |-> rows[i].name,
      condition |-> rows[i].condition, price |-> rows[i].price] : i \in 1..Len(rows)}

\* `if all_price_data:` the mapping, the sorted rows and the pivot are written
TrackSave ==
    /\ tpc = "sets"
    /\ set_index > Len(set_names)
    /\ all_price_data # <<>>
    /\ files' =
          DictSet(DictSet(DictSet(files,
                                  "set_mapping.json", set_name_mapping),
                          "prices.csv", sort_values(all_price_data)),
                  "pivot.csv", PivotCells(all_price_data))
    /\ track_result' = "df"
    /\ tpc' = "returned"
    /\ UNCHANGED <<ppc, set_names, set_index, set_name_mapping, total_cards,
                   card_index, all_price_data, raised>>
    /\ PaginatorLeft /\ CallLeft /\ TrackUnchanged

\* `else: return None`
TrackNothing ==
    /\ tpc = "sets"
    /\ set_index > Len(set_names)
    /\ all_price_data = <<>>
    /\ track_result' = "None"
    /\ tpc' = "returned"
    /\ UNCHANGED <<ppc, set_names, set_index, set_name_mapping, total_cards,
                   card_index, all_price_data, files, raised>>
    /\ PaginatorLeft /\ CallLeft /\ TrackUnchanged

---------------------------------------------------------------------------
(* The states before anything was called.                                  *)

SortIdle ==
    /\ df = <<>>
    /\ sorted_df = <<>>
    /\ spc = "idle"

ResolverIdle ==
    /\ target_name = <<>>
    /\ available_sets = <<>>
    /\ matched_set = None
    /\ rpc = "idle"

CallIdle ==
    /\ fpc = "idle"
    /\ endpoint = "sets"
    /\ params_page = 0
    /\ max_retries = DEFAULT_MAX_RETRIES
    /\ backoff_factor = DEFAULT_BACKOFF_FACTOR
    /\ retries = 0
    /\ response_data = NoneResponse
    /\ attempts = <<>>
    /\ slept = 0
    /\ last_gap = NoGap
    /\ requested = FALSE
    /\ any_retry = FALSE
    /\ returned_log = <<>>

PaginatorIdle ==
    /\ ppc = "idle"
    /\ page = 0
    /\ all_records = <<>>
    /\ max_pages = 0
    /\ page_result = NoResult
    /\ api_total = NoCount

TrackIdle ==
    /\ tpc = "idle"
    /\ set_names = <<>>
    /\ set_index = 0
    /\ set_name_mapping = <<>>
    /\ total_cards = <<>>
    /\ card_index = 0
    /\ all_price_data = <<>>
    /\ files = <<>>
    /\ raised = "none"
    /\ track_result = "running"

\* SetTracker(api_key, rate_limit_delay) with a delay of `delays`
Constructed(delays) ==
    /\ rate_limit_delay \in delays
    /\ op = "idle"
    /\ CallIdle
    /\ PaginatorIdle
    /\ TrackIdle

---------------------------------------------------------------------------
(* find_closest_set_name applied to drawn inputs.                          *)

InitResolve ==
    /\ target_name \in TargetPool
    /\ available_sets \in SeqsUpTo(NamePool, MaxSets)
    /\ matched_set = None
    /\ rpc = "call"
    /\ SortIdle
    /\ Constructed({DEFAULT_RATE_LIMIT_DELAY})

Resolve ==
    /\ rpc = "call"
    /\ matched_set' = find_closest_set_name(target_name, available_sets)
    /\ rpc' = "done"
    /\ UNCHANGED <<target_name, available_sets, sortVars, rate_limit_delay, op,
                   callVars, historyVars, pageVars, trackVars>>

NextResolve == Resolve

SpecResolve == InitResolve /\ [][NextResolve]_vars

---------------------------------------------------------------------------
(* The sort applied to drawn inputs.                                       *)

InitSort ==
    /\ df \in SeqsUpTo(RowPool, MaxRows)
    /\ sorted_df = <<>>
    /\ spc = "call"
    /\ ResolverIdle
    /\ Constructed({DEFAULT_RATE_LIMIT_DELAY})

Sort ==
    /\ spc = "call"
    /\ sorted_df' = sort_values(df)
    /\ spc' = "done"
    /\ UNCHANGED <<df, resolverVars, rate_limit_delay, op, callVars, historyVars,
                   pageVars, trackVars>>

NextSort == Sort

SpecSort == InitSort /\ [][NextSort]_vars

---------------------------------------------------------------------------
(* A client calls safe_api_call.                                           *)

InitFetch ==
    /\ Constructed(DelayPool)
    /\ ResolverIdle
    /\ SortIdle

\* safe_api_call(url, params, max_retries, backoff_factor) for a page of a
\* listing
SafeApiCall ==
    /\ op = "idle"
    /\ op' = "safe_api_call"
    /\ \E max \in 0..MaxRetriesArg, factor \in FactorPool :
          EnterCall("sets", 1, max, factor)
    /\ api_total' \in {NoCount, PageSize}
    /\ UNCHANGED <<rate_limit_delay, slept, last_gap, requested, any_retry,
                   returned_log, ppc, page, all_records, max_pages, page_result,
                   trackVars, resolverVars, sortVars>>

NextFetch ==
    \/ SafeApiCall
    \/ Attempt200
    \/ Attempt429
    \/ AttemptOther
    \/ AttemptException

SpecFetch == InitFetch /\ [][NextFetch]_vars

---------------------------------------------------------------------------
(* A client calls get_all_set_names or search_cards.                       *)

InitPaginate ==
    /\ Constructed({DEFAULT_RATE_LIMIT_DELAY})
    /\ ResolverIdle
    /\ SortIdle

ClientUnchanged ==
    UNCHANGED <<rate_limit_delay, slept, last_gap, requested, any_retry,
                trackVars, resolverVars, sortVars>>

GetAllSetNames ==
    /\ op = "idle"
    /\ op' = "get_all_set_names"
    /\ \E total \in Totals : EnterSets(total)
    /\ ClientUnchanged

SearchCards ==
    /\ op = "idle"
    /\ op' = "search_cards"
    /\ \E total \in Totals, limit \in 0..MaxPages :
          IF PageGuard(1, limit)
          THEN EnterCards(total, limit)
          ELSE EnterCardsNoPage(total, limit)
    /\ ClientUnchanged

NextPaginate ==
    \/ GetAllSetNames
    \/ SearchCards
    \/ Attempt200
    \/ Attempt429
    \/ AttemptOther
    \/ AttemptException
    \/ SetsFailed
    \/ SetsEmpty
    \/ SetsLast
    \/ SetsMore
    \/ CardsFailed
    \/ CardsEmpty
    \/ CardsLast
    \/ CardsMore
    \/ CardsCeiling

SpecPaginate == InitPaginate /\ [][NextPaginate]_vars

---------------------------------------------------------------------------
(* A client calls track_multiple_sets_to_csv.                              *)

InitTrack ==
    /\ Constructed({DEFAULT_RATE_LIMIT_DELAY})
    /\ ResolverIdle
    /\ SortIdle

\* the shop's card listings end before search_cards' ceiling of 10 pages, so
\* CardsCeiling is no step of a tracked run
NextTrack ==
    \/ TrackMultipleSets
    \/ Attempt200
    \/ Attempt429
    \/ AttemptOther
    \/ AttemptException
    \/ SetsFailed
    \/ SetsEmpty
    \/ SetsLast
    \/ SetsMore
    \/ CardsFailed
    \/ CardsEmpty
    \/ CardsLast
    \/ CardsMore
    \/ TrackUnpackFails
    \/ TrackNoCatalog
    \/ TrackCatalog
    \/ TrackNotFound
    \/ TrackSearch
    \/ TrackNoCards
    \/ TrackCards
    \/ TrackPriceNext
    \/ TrackPriceLast
    \/ TrackSave
    \/ TrackNothing

SpecTrack == InitTrack /\ [][NextTrack]_vars

---------------------------------------------------------------------------
(* Properties of safe_api_call, checked under SpecFetch.                   *)

\* the statuses and the backoff sleeps of the first n requests of the call
Statuses(n) == [i \in 1..n |-> attempts[i].status]

Waits(n) == [i \in 1..n |-> attempts[i].wait]

C3_BoundedRetries ==
    op = "safe_api_call" =>
        /\ Len(attempts) <= max_retries + 1
        /\ fpc = "loop" => Len(attempts) <= max_retries
        /\ ( /\ fpc = "returned"
             /\ \A i \in 1..Len(attempts) :
                   attempts[i].status \in {"429", "exception"} )
             => /\ Len(attempts) = max_retries + 1
                /\ response_data = NoneResponse
        /\ ( /\ fpc = "returned"
             /\ attempts # <<>>
             /\ attempts[Len(attempts)].status = "other" )
             => response_data = NoneResponse

\* C3's case: a call with max_retries = 3 ended after a 429, an exception, a
\* 429 and an exception
C3_Witness ==
    /\ op = "safe_api_call"
    /\ fpc = "returned"
    /\ max_retries = 3
    /\ Len(attempts) = 4
    /\ Statuses(4) = <<"429", "exception", "429", "exception">>
    /\ response_data = NoneResponse

---------------------------------------------------------------------------
(* Properties of the paginators, checked under SpecPaginate.               *)

\* C1: a sleep of at least rate_limit_delay separates any two consecutive
\* HTTP requests, also the request that follows a 200 answer.
C1_SleepBetweenRequests ==
    last_gap # NoGap => last_gap >= rate_limit_delay

\* every answer so far was a 200 with a full page
FullPagesOnly ==
    /\ ~any_retry
    /\ \A i \in 1..Len(returned_log) :
          returned_log[i].kind = "data" /\ returned_log[i].n = PageSize

\* records 1..n of a listing served in pages of PageSize
FirstRecords(n) == [i \in 1..n |-> BulkRecord(i)]

\* C5: served k full pages of 250 records with count = 250 and
\* totalCount = 250 * k, both paginators (search_cards for k <= max_pages)
\* request pages 1..k in order, once each, and return the 250 * k records in
\* page order.
C5_FullPagesFetchedOnce ==
    \A k \in 1..MaxPages :
        ( /\ op \in {"get_all_set_names", "search_cards"}
          /\ api_total = PageSize * k
          /\ op = "search_cards" => k <= max_pages
          /\ FullPagesOnly )
            => /\ Len(returned_log) <= k
               /\ \A i \in 1..Len(returned_log) : returned_log[i].page = i
               /\ fpc = "loop" => params_page = Len(returned_log) + 1
               /\ ppc = "returned"
                     => /\ Len(returned_log) = k
                        /\ page_result.records = FirstRecords(PageSize * k)
                        /\ op = "get_all_set_names"
                              => /\ page_result.kind = "pair"
                                 /\ Len(page_result.names) = PageSize * k

\* C5's case: search_cards with max_pages = 3 against totalCount = 500 made
\* two page requests and returned 500 records
C5_Witness ==
    /\ op = "search_cards"
    /\ max_pages = 3
    /\ api_total = 500
    /\ FullPagesOnly
    /\ ppc = "returned"
    /\ Len(returned_log) = 2
    /\ Len(page_result.records) = 500

RECURSIVE RecordsServed(_)
\* the records of the pages on record, in the order served
RecordsServed(log) ==
    IF log = <<>> THEN <<>>
    ELSE RecordsServed(SubSeq(log, 1, Len(log) - 1))
             \o BulkRecords(log[Len(log)].page, log[Len(log)].n)

\* the latest page fetched is a page p > 1 whose fetch failed, whose body has
\* no 'data' or whose data is empty
LaterPageUnusable ==
    /\ op \in {"get_all_set_names", "search_cards"}
    /\ returned_log # <<>>
    /\ returned_log[Len(returned_log)].page > 1
    /\ \/ returned_log[Len(returned_log)].kind \in {"failed", "nodata"}
       \/ returned_log[Len(returned_log)].n = 0

\* C6: when page p > 1 fails, has no 'data' or is empty, no further page is
\* requested and the paginator returns, as a result and not as an error, the
\* records of pages 1..p-1 in order.
C6_LaterFailureEndsListing ==
    LaterPageUnusable =>
        /\ fpc # "loop"
        /\ \A i \in 1..Len(returned_log) : returned_log[i].page = i
        /\ ppc = "returned" =>
              /\ page_result.kind = (IF op = "get_all_set_names" THEN "pair" ELSE "list")
              /\ page_result.records
                    = RecordsServed(SubSeq(returned_log, 1, Len(returned_log) - 1))

\* C6's case: get_all_set_names got a full first page and a failed second
\* fetch, and returned the 250 names and records of page 1
C6_Witness ==
    /\ op = "get_all_set_names"
    /\ ppc = "returned"
    /\ Len(returned_log) = 2
    /\ returned_log[1].n = PageSize
    /\ returned_log[2].kind = "failed"
    /\ page_result.kind = "pair"
    /\ Len(page_result.names) = PageSize
    /\ page_result.records = FirstRecords(PageSize)

---------------------------------------------------------------------------
(* Properties of the sort, checked under SpecSort.                         *)

\* whether a card number starts with digits, and the value of those digits
StartsWithDigit(number) == number # <<>> /\ IsDigit(number[1])

\* the run of characters satisfying Test that starts the string
LeadingRun(s, class) ==
    IF s = <<>> \/ s[1] \notin class THEN <<>> ELSE FirstRun(s, class)

NumericPrefix(number) == IntOf(LeadingRun(number, DigitClass), 0)

\* C10: within one set the rows are ordered by the numeric prefix of the card
\* number ascending, and the numbers that do not start with digits come after
\* all that do (9, 10, TG1, 2 are written as 2, 9, 10, TG1).
C10_NumericPrefixOrder ==
    spc = "done" =>
        \A i, j \in 1..Len(sorted_df) :
            (i < j /\ sorted_df[i].set = sorted_df[j].set)
                => /\ StartsWithDigit(sorted_df[j].number)
                        => StartsWithDigit(sorted_df[i].number)
                   /\ (StartsWithDigit(sorted_df[i].number)
                        /\ StartsWithDigit(sorted_df[j].number))
                        => NumericPrefix(sorted_df[i].number)
                              <= NumericPrefix(sorted_df[j].number)

---------------------------------------------------------------------------
(* Properties of find_closest_set_name, checked under SpecResolve.         *)

\* the number of tokens of `target` that are tokens of `s`
TokenCount(target, s) ==
    LET target_terms == re_split(lower(target))
    IN  Cardinality({i \in 1..Len(target_terms) :
                        target_terms[i] \in Range(re_split(lower(s)))})

\* the promo rule's test of entry s for a target holding "Black Star Promos"
PromoRuleMatches(target, s) ==
    /\ Contains(BlackStarPromos, target)
    /\ Contains(strip(SplitFirst(target, BlackStar)), s)
    /\ Contains(BlackStarPromos, s)

\* no entry matches by the exact, case-insensitive, promo or substring rule
NoEarlierTier(target, available) ==
    \A i \in 1..Len(available) :
        /\ available[i] # target
        /\ lower(available[i]) # lower(target)
        /\ ~PromoRuleMatches(target, available[i])
        /\ ~Contains(lower(target), lower(available[i]))

MaxTokenCount(target, available) ==
    IF available = <<>> THEN 0
    ELSE CHOOSE m \in {TokenCount(target, available[i]) : i \in 1..Len(available)} :
             \A i \in 1..Len(available) : TokenCount(target, available[i]) <= m

\* C7: a target that is literally an element of available_sets is returned
\* as it is, whatever stands before it in the list.
C7_ExactMatchWins ==
    (rpc = "done" /\ target_name \in Range(available_sets))
        => matched_set = target_name

\* C7's case: the target stands second, behind an entry that equals it when
\* case is ignored, and the target is what was returned
C7_Witness ==
    /\ rpc = "done"
    /\ Len(available_sets) >= 2
    /\ available_sets[2] = target_name
    /\ available_sets[1] # target_name
    /\ lower(available_sets[1]) = lower(target_name)
    /\ matched_set = target_name

\* C8 as stated: for the target "Base Set Black Star Promos", every list that
\* holds "Base-Black Star Promos" (with the em-dash) and not the target itself
\* resolves to that entry.
C8_PromoAlwaysResolved ==
    ( /\ rpc = "done"
      /\ target_name = N_BaseSetPromos
      /\ N_BaseEmPromos \in Range(available_sets)
      /\ N_BaseSetPromos \notin Range(available_sets) )
        => matched_set = N_BaseEmPromos

\* C8 amended: the em-dash entry is returned when no entry matches the target
\* by the case-insensitive, promo or substring rule, no entry holds all five
\* tokens of the target and no entry before it holds four of them (the
\* em-dash entry holds four: base, black, star, promos).
C8_PromoResolvedByTokens ==
    ( /\ rpc = "done"
      /\ target_name = N_BaseSetPromos
      /\ N_BaseEmPromos \in Range(available_sets)
      /\ NoEarlierTier(target_name, available_sets)
      /\ \A i \in 1..Len(available_sets) :
            /\ TokenCount(target_name, available_sets[i]) < 5
            /\ (TokenCount(target_name, available_sets[i]) = 4
                  => \E j \in 1..i : available_sets[j] = N_BaseEmPromos) )
        => matched_set = N_BaseEmPromos

\* C8's case: the em-dash entry stands behind an entry that shares fewer tokens
\* with the target, and is returned
C8_Witness ==
    /\ rpc = "done"
    /\ target_name = N_BaseSetPromos
    /\ available_sets = <<N_BaseSet, N_BaseEmPromos>>
    /\ matched_set = N_BaseEmPromos

\* C9: when no entry matches by the exact, case-insensitive, promo or substring
\* rule, the result is the first entry in list order whose token-overlap count
\* is the maximum over the list if that maximum is positive, and None if every
\* entry has count 0.
C9_FirstOfBestTokenCount ==
    (rpc = "done" /\ NoEarlierTier(target_name, available_sets))
        => LET best == MaxTokenCount(target_name, available_sets)
           IN  IF best = 0
               THEN matched_set = None
               ELSE \E i \in 1..Len(available_sets) :
                       /\ matched_set = available_sets[i]
                       /\ TokenCount(target_name, available_sets[i]) = best
                       /\ \A j \in 1..(i - 1) :
                              TokenCount(target_name, available_sets[j]) < best

\* C9's case: two different entries tie on a positive count, a third entry has
\* a lower count, and the first of the two was returned
C9_Witness ==
    /\ rpc = "done"
    /\ NoEarlierTier(target_name, available_sets)
    /\ Len(available_sets) = 3
    /\ TokenCount(target_name, available_sets[1]) < TokenCount(target_name, available_sets[2])
    /\ TokenCount(target_name, available_sets[2]) = TokenCount(target_name, available_sets[3])
    /\ available_sets[2] # available_sets[3]
    /\ matched_set = available_sets[2]


---------------------------------------------------------------------------
(* Properties of track_multiple_sets_to_csv, checked under SpecTrack.      *)

\* the fetch of page 1 of the sets listing failed or its body has no 'data'
CatalogFailed ==
    /\ op = "track"
    /\ returned_log # <<>>
    /\ returned_log[1].url = "sets"
    /\ returned_log[1].page = 1
    /\ returned_log[1].kind \in {"failed", "nodata"}

\* C4: when page 1 of the sets listing fails, get_all_set_names yields an
\* empty result and the run ends through its error return: it returns None,
\* raises nothing, resolves no name, requests no card and writes no file.
C4_CatalogFailureReturnsNone ==
    CatalogFailed =>
        /\ raised = "none"
        /\ tpc \in {"catalog", "returned"}
        /\ tpc = "returned" => track_result = "None"
        /\ ppc = "returned" => page_result.records = <<>>
        /\ DOMAIN set_name_mapping = {}
        /\ set_index = 0
        /\ endpoint = "sets"
        /\ DOMAIN files = {}

\* the catalog was retrieved and saved
CatalogRetrieved == op = "track" /\ "all_set_data.json" \in DOMAIN files

\* C11: in a run that retrieved the catalog, every user-supplied name that
\* resolves to nothing is mapped to "Not found", the names after it are still
\* processed, and at the end of the run the mapping, with one key per
\* user-supplied name, has been written as the mapping file.
C11_NotFoundMappingPersisted ==
    CatalogRetrieved =>
        /\ \A i \in 1..Len(set_names) :
              ( /\ i < set_index
                /\ Falsy(find_closest_set_name(set_names[i], available_sets)) )
                 => /\ set_names[i] \in DOMAIN set_name_mapping
                    /\ set_name_mapping[set_names[i]] = NotFound
        /\ ( /\ tpc = "returned"
             /\ \E i \in 1..Len(set_names) :
                   Falsy(find_closest_set_name(set_names[i], available_sets)) )
             => /\ set_index = Len(set_names) + 1
                /\ DOMAIN set_name_mapping = Range(set_names)
                /\ "set_mapping.json" \in DOMAIN files
                /\ files["set_mapping.json"] = set_name_mapping

---------------------------------------------------------------------------
(* The two retry branches of safe_api_call, checked under SpecFetch.       *)

\* the sleep that follows request i of the call: the backoff and the fixed delay
SleptAfter(i) == attempts[i].wait + attempts[i].pause

\* request i failed in a way that is retried, and a retry remains: the count
\* of retries was i - 1 when it was sent
RetriedAt(i, status) ==
    /\ i \in 1..Len(attempts)
    /\ attempts[i].status = status
    /\ i <= max_retries

\* C12 as stated: an exception is handled with the same backoff as a 429: at
\* attempt count n with retries remaining the time slept before the next
\* request is rate_limit_delay * backoff_factor^n in both cases, and the count
\* becomes n + 1.
C12_SameBackoff ==
    op = "safe_api_call" =>
        /\ \A i \in 1..Len(attempts) :
              (RetriedAt(i, "429") \/ RetriedAt(i, "exception"))
                 => SleptAfter(i) = rate_limit_delay * Pow(backoff_factor, i - 1)
        /\ fpc = "loop" => retries = Len(attempts)

\* C12 amended: at attempt count n with retries remaining, a 429 is followed
\* by a sleep of rate_limit_delay * backoff_factor^n, an exception by a sleep
\* of rate_limit_delay * backoff_factor^(n + 1) and then the fixed
\* rate_limit_delay; in both cases the count becomes n + 1.
C12_DistinctBackoff ==
    op = "safe_api_call" =>
        /\ \A i \in 1..Len(attempts) :
              /\ RetriedAt(i, "429")
                    => SleptAfter(i) = rate_limit_delay * Pow(backoff_factor, i - 1)
              /\ RetriedAt(i, "exception")
                    => SleptAfter(i) = rate_limit_delay * Pow(backoff_factor, i)
                                          + rate_limit_delay
        /\ fpc = "loop" => retries = Len(attempts)

\* C12's case: with rate_limit_delay = 1.0 and backoff_factor = 2 a call met
\* an exception and then a 429, and may send a third request
C12_Witness ==
    /\ op = "safe_api_call"
    /\ fpc = "loop"
    /\ rate_limit_delay = 10
    /\ backoff_factor = 2
    /\ Len(attempts) = 2
    /\ Statuses(2) = <<"exception", "429">>
    /\ SleptAfter(1) = 30
    /\ SleptAfter(2) = 20
    /\ retries = 2

---------------------------------------------------------------------------
(* The page ceiling of search_cards, checked under SpecPaginate.           *)

\* the calls of safe_api_call the paginator has made: those that returned and
\* the one in progress
CallsMade == Len(returned_log) + (IF fpc = "loop" THEN 1 ELSE 0)

\* C13: whatever the API answers, search_cards makes at most max_pages calls
\* of safe_api_call, asks for pages 1..max_pages only and in order, has
\* returned once page max_pages was read, and returns at most 250 * max_pages
\* records.
C13_PageCeiling ==
    op = "search_cards" =>
        /\ CallsMade <= max_pages
        /\ \A i \in 1..Len(returned_log) :
              /\ returned_log[i].url = "cards"
              /\ returned_log[i].page = i
              /\ returned_log[i].page \in 1..max_pages
        /\ fpc = "loop" => (endpoint = "cards" /\ params_page \in 1..max_pages)
        /\ page > max_pages => ppc = "returned"
        /\ Len(all_records) <= PageSize * max_pages
        /\ ppc = "returned" =>
              /\ page_result.kind = "list"
              /\ page_result.records = all_records
              /\ Len(page_result.records) <= PageSize * max_pages

\* C13's case: a listing that reports no counts served full pages until
\* search_cards stopped at its ceiling of two or more pages
C13_Witness ==
    /\ op = "search_cards"
    /\ ppc = "returned"
    /\ api_total = NoCount
    /\ max_pages >= 2
    /\ Len(returned_log) = max_pages
    /\ \A i \in 1..Len(returned_log) :
          returned_log[i].kind = "data" /\ returned_log[i].n = PageSize
    /\ Len(page_result.records) = PageSize * max_pages

---------------------------------------------------------------------------
(* The two completion tests compared, checked under SpecPaginate.          *)

\* the number of pages of PageSize that hold n records
PagesFor(n) == (n + PageSize - 1) \div PageSize

\* the records a well-behaved API serves on page p of a listing of n records
RecordsOnPage(p, n) ==
    IF n >= PageSize * p THEN PageSize
    ELSE IF n > PageSize * (p - 1) THEN n - PageSize * (p - 1)
    ELSE 0

\* so far the API behaved well: the listing holds api_total >= 1 records, no
\* request failed, and every answer held the records of its page
WellBehaved ==
    /\ api_total # NoCount
    /\ api_total >= 1
    /\ ~any_retry
    /\ \A i \in 1..Len(returned_log) :
          /\ returned_log[i].kind = "data"
          /\ returned_log[i].n = RecordsOnPage(returned_log[i].page, api_total)

\* C14: against a well-behaved API holding N records (N <= 250 * max_pages
\* for search_cards) the sets listing and the card search behave alike: each
\* issues ceil(N / 250) page requests and returns the N records in order.
C14_SameRequestsAndRecords ==
    ( /\ op \in {"get_all_set_names", "search_cards"}
      /\ WellBehaved
      /\ op = "search_cards" => api_total <= PageSize * max_pages )
        => /\ CallsMade <= PagesFor(api_total)
           /\ ppc = "returned" =>
                 /\ Len(returned_log) = PagesFor(api_total)
                 /\ page_result.records = FirstRecords(api_total)
===========================================================================
